---- MODULE Spec2Model ----
(***************************************************************************)
(* BlueConnect Go sensor platform (custom_components/blueconnect/sensor.py)*)
(*                                                                         *)
(* The platform owns a descriptor table, a setup routine that turns the    *)
(* coordinator's snapshot into a list of sensor entities, and the          *)
(* entity's native_value accessor.  The coordinator and the config-entry   *)
(* life cycle are collaborators; they appear here as the operations that   *)
(* replace the snapshot and that load and unload the entry.                *)
(*                                                                         *)
(* Python values are modelled as follows.                                  *)
(*   - a dict whose iteration order matters (coordinator.data.sensors) is  *)
(*     a sequence of [k, v] items with pairwise distinct keys, in          *)
(*     insertion order;                                                    *)
(*   - a dict that is only subscripted (the descriptor table) is a         *)
(*     function from its keys;                                             *)
(*   - the outcome of an expression that may raise is Return(v) or         *)
(*     Raise(e);                                                           *)
(*   - None is a value distinct from every reading.                        *)
(* _LOGGER.debug output goes to the logging framework and is not part of   *)
(* the platform's state; it is not modelled.                               *)
(***************************************************************************)
EXTENDS Integers, Sequences, FiniteSets, TLC

\* Bounds of the model: items in one snapshot, distinct readings.
MaxSensors == 3
MaxValue == 2

None == [type |-> "NoneType"]
Reading(n) == [type |-> "float", v |-> n]
Return(v) == [kind |-> "return", value |-> v]
Raise(e) == [kind |-> "raise", exc |-> e]

\* sensor.py:36-105
TemplateAtLoad ==
  [k \in {"EC", "salt", "ORP", "pH", "battery", "battery_voltage",
          "temperature", "chlorine"} |->
     CASE k = "EC" ->
            [key |-> "EC", name |-> "Electrical Conductivity",
             native_unit_of_measurement |-> "UnitOfConductivity.MICROSIEMENS_PER_CM",
             state_class |-> "SensorStateClass.MEASUREMENT",
             icon |-> "mdi:flash-triangle-outline",
             suggested_display_precision |-> 0]
       [] k = "salt" ->
            [key |-> "salt", name |-> "Salt",
             native_unit_of_measurement |-> "CONCENTRATION_PARTS_PER_MILLION",
             state_class |-> "SensorStateClass.MEASUREMENT",
             icon |-> "mdi:shaker-outline"]
       [] k = "ORP" ->
            [key |-> "ORP", name |-> "Oxidation-Reduction Potential",
             native_unit_of_measurement |-> "UnitOfElectricPotential.MILLIVOLT",
             state_class |-> "SensorStateClass.MEASUREMENT",
             device_class |-> "SensorDeviceClass.VOLTAGE",
             icon |-> "mdi:alpha-v-circle",
             suggested_display_precision |-> 0]
       [] k = "pH" ->
            [key |-> "pH", name |-> "pH",
             device_class |-> "SensorDeviceClass.PH",
             state_class |-> "SensorStateClass.MEASUREMENT",
             icon |-> "mdi:ph",
             suggested_display_precision |-> 1]
       [] k = "battery" ->
            [key |-> "battery", name |-> "Battery",
             state_class |-> "SensorStateClass.MEASUREMENT",
             device_class |-> "SensorDeviceClass.BATTERY",
             native_unit_of_measurement |-> "PERCENTAGE",
             icon |-> "mdi:battery",
             suggested_display_precision |-> 1]
       [] k = "battery_voltage" ->
            [key |-> "battery_voltage", name |-> "Battery Voltage",
             state_class |-> "SensorStateClass.MEASUREMENT",
             device_class |-> "SensorDeviceClass.BATTERY",
             native_unit_of_measurement |-> "UnitOfElectricPotential.MILLIVOLT",
             icon |-> "mdi:battery",
             suggested_display_precision |-> 0]
       [] k = "temperature" ->
            [key |-> "temperature", name |-> "Temperature",
             state_class |-> "SensorStateClass.MEASUREMENT",
             device_class |-> "SensorDeviceClass.TEMPERATURE",
             native_unit_of_measurement |-> "UnitOfTemperature.CELSIUS",
             icon |-> "mdi:pool-thermometer",
             suggested_display_precision |-> 2]
       [] k = "chlorine" ->
            [key |-> "chlorine", name |-> "Free Chlorine",
             state_class |-> "SensorStateClass.MEASUREMENT",
             device_class |-> "SensorDeviceClass.TEMPERATURE",
             native_unit_of_measurement |-> "CONCENTRATION_PARTS_PER_MILLION",
             icon |-> "mdi:chemical-weapon",
             suggested_display_precision |-> 2]]

VARIABLES
  SENSORS_MAPPING_TEMPLATE,  \* the module-level descriptor table
  coordinator,               \* [data |-> the latest BlueConnectGoDevice snapshot]
  entry_state,               \* "not_loaded" or "loaded"
  add_entities_calls,        \* argument lists async_add_entities got in the entry's setup run
  entities,                  \* the BlueConnectSensor objects the platform holds
  last                       \* the operation that ran last and its outcome

vars == <<SENSORS_MAPPING_TEMPLATE, coordinator, entry_state,
          add_entities_calls, entities, last>>

----------------------------------------------------------------------------
\* Inputs: the snapshots the coordinator may deliver.

\* Sensor keys a device reports: two the table knows and a spelling it does not.
SensorTypes == {"pH", "EC", "ph"}

Readings == {Reading(n) : n \in 1..MaxValue}

\* Identity fields of the device object, as the driver fills them in.
DeviceIdentities ==
  { [name |-> "BlueConnect Go", identifier |-> "A1B2",
     address |-> "00:A0:50:C3:A1:B2", hw_version |-> "1", sw_version |-> "7"],
    [name |-> "Pool", identifier |-> "C3D4",
     address |-> "00:A0:50:E5:C3:D4", hw_version |-> "2", sw_version |-> "8"] }

KeyOrders ==
  UNION { { ks \in [1..n -> SensorTypes] :
              \A i, j \in 1..n : i # j => ks[i] # ks[j] } : n \in 0..MaxSensors }

SensorDicts ==
  UNION { { [i \in 1..Len(ks) |-> [k |-> ks[i], v |-> vs[i]]] :
              vs \in [1..Len(ks) -> Readings] } : ks \in KeyOrders }

Snapshots ==
  { [name |-> d.name, identifier |-> d.identifier, address |-> d.address,
     hw_version |-> d.hw_version, sw_version |-> d.sw_version, sensors |-> s] :
       d \in DeviceIdentities, s \in SensorDicts }

----------------------------------------------------------------------------
\* Python dict primitives.

\* d.keys() of an ordered dict
Keys(d) == { d[i].k : i \in 1..Len(d) }

\* d[k] of an ordered dict: the value, or KeyError
Subscript(d, k) ==
  IF k \in Keys(d)
    THEN Return(d[CHOOSE i \in 1..Len(d) : d[i].k = k].v)
    ELSE Raise("KeyError")

\* table[k] of the descriptor table: the descriptor, or KeyError
TableSubscript(table, k) ==
  IF k \in DOMAIN table THEN Return(table[k]) ELSE Raise("KeyError")

----------------------------------------------------------------------------
\* BlueConnectSensor

\* Variant of BlueConnectSensor: the unique id leaves the sensor key out.
BlueConnectSensor_NoKey(blueconnect_go_device, entity_description) ==
  LET name == blueconnect_go_device.name \o " " \o blueconnect_go_device.identifier
  IN [entity_description |-> entity_description,
      _attr_unique_id |-> name,
      _id |-> blueconnect_go_device.address,
      _attr_device_info |->
        [connections |-> {<<"bluetooth", blueconnect_go_device.address>>},
         name |-> name,
         manufacturer |-> "Blue Riiot",
         model |-> "Blue Connect Go",
         hw_version |-> blueconnect_go_device.hw_version,
         sw_version |-> blueconnect_go_device.sw_version]]

\* BlueConnectSensor.__init__: the attributes the constructor sets.
BlueConnectSensor(blueconnect_go_device, entity_description) ==
  LET name == blueconnect_go_device.name \o " " \o blueconnect_go_device.identifier
  IN [entity_description |-> entity_description,
      _attr_unique_id |-> name \o "_" \o entity_description.key,
      _id |-> blueconnect_go_device.address,
      _attr_device_info |->
        [connections |-> {<<"bluetooth", blueconnect_go_device.address>>},
         name |-> name,
         manufacturer |-> "Blue Riiot",
         model |-> "Blue Connect Go",
         hw_version |-> blueconnect_go_device.hw_version,
         sw_version |-> blueconnect_go_device.sw_version]]

\* Variant of native_value: no try/except around the subscript.
native_value_NoExcept(self, coord) ==
  Subscript(coord.data.sensors, self.entity_description.key)

\* Variant of native_value: returns the snapshot's first reading, whatever its key.
native_value_FirstItem(self, coord) ==
  IF coord.data.sensors = <<>> THEN Return(None)
  ELSE Return(coord.data.sensors[1].v)

\* BlueConnectSensor.native_value: subscript the latest snapshot, KeyError -> None.
native_value(self, coord) ==
  LET r == Subscript(coord.data.sensors, self.entity_description.key)
  IN IF r.kind = "raise" /\ r.exc = "KeyError" THEN Return(None) ELSE r

----------------------------------------------------------------------------
\* async_setup_entry

\* Variant of SetupLoop: an unknown sensor type ends the loop (break, not continue).
RECURSIVE SetupLoop_Break(_, _, _, _)
SetupLoop_Break(data, sensors_mapping, i, acc) ==
  IF i > Len(data.sensors) THEN Return(acc)
  ELSE LET sensor_type == data.sensors[i].k IN
       IF sensor_type \notin DOMAIN sensors_mapping
         THEN Return(acc)
         ELSE LET d == TableSubscript(sensors_mapping, sensor_type) IN
              IF d.kind = "raise" THEN d
              ELSE SetupLoop_Break(data, sensors_mapping, i + 1,
                                   Append(acc, BlueConnectSensor(data, d.value)))

\* Variant of SetupLoop: the unknown-type branch logs but does not continue.
RECURSIVE SetupLoop_NoContinue(_, _, _, _)
SetupLoop_NoContinue(data, sensors_mapping, i, acc) ==
  IF i > Len(data.sensors) THEN Return(acc)
  ELSE LET sensor_type == data.sensors[i].k
           d == TableSubscript(sensors_mapping, sensor_type)
       IN IF d.kind = "raise" THEN d
          ELSE SetupLoop_NoContinue(data, sensors_mapping, i + 1,
                                    Append(acc, BlueConnectSensor(data, d.value)))

\* Variant of SetupLoop: the iteration starts at the second item.
RECURSIVE SetupLoop_SkipFirst(_, _, _, _)
SetupLoop_SkipFirst(data, sensors_mapping, i, acc) ==
  IF i = 1 THEN SetupLoop_SkipFirst(data, sensors_mapping, 2, acc)
  ELSE IF i > Len(data.sensors) THEN Return(acc)
  ELSE LET sensor_type == data.sensors[i].k IN
       IF sensor_type \notin DOMAIN sensors_mapping
         THEN SetupLoop_SkipFirst(data, sensors_mapping, i + 1, acc)
         ELSE LET d == TableSubscript(sensors_mapping, sensor_type) IN
              IF d.kind = "raise" THEN d
              ELSE SetupLoop_SkipFirst(data, sensors_mapping, i + 1,
                                       Append(acc, BlueConnectSensor(data, d.value)))

\* The for loop over coordinator.data.sensors.items(), from item i on.
\* Yields Return(entities), or the exception that leaves the loop.
RECURSIVE SetupLoop(_, _, _, _)
SetupLoop(data, sensors_mapping, i, acc) ==
  IF i > Len(data.sensors) THEN Return(acc)
  ELSE LET sensor_type == data.sensors[i].k IN
       IF sensor_type \notin DOMAIN sensors_mapping
         THEN SetupLoop(data, sensors_mapping, i + 1, acc)
         ELSE LET d == TableSubscript(sensors_mapping, sensor_type) IN
              IF d.kind = "raise" THEN d
              ELSE SetupLoop(data, sensors_mapping, i + 1,
                             Append(acc, BlueConnectSensor(data, d.value)))

\* Variant of SetupBody: async_add_entities is only called for a non-empty list.
SetupBody_SkipEmpty(template, coord) ==
  LET r == SetupLoop(coord.data, template, 1, <<>>)
  IN IF r.kind = "raise"
       THEN [outcome |-> r, calls |-> <<>>, template |-> template]
       ELSE [outcome |-> Return(None),
             calls |-> IF r.value = <<>> THEN <<>> ELSE <<r.value>>,
             template |-> template]

\* Variant of SetupBody: no .copy(), and each descriptor used is popped from the table.
SetupBody_AliasPop(template, coord) ==
  LET r == SetupLoop(coord.data, template, 1, <<>>)
      left == DOMAIN template \ Keys(coord.data.sensors)
  IN IF r.kind = "raise"
       THEN [outcome |-> r, calls |-> <<>>, template |-> template]
       ELSE [outcome |-> Return(None), calls |-> <<r.value>>,
             template |-> [k \in left |-> template[k]]]

\* The body of async_setup_entry: its outcome, the calls it made to
\* async_add_entities, and the descriptor table it leaves behind.
SetupBody(template, coord) ==
  LET sensors_mapping == template    \* .copy(): a separate dict, equal content
      r == SetupLoop(coord.data, sensors_mapping, 1, <<>>)
  IN IF r.kind = "raise"
       THEN [outcome |-> r, calls |-> <<>>, template |-> template]
       ELSE [outcome |-> Return(None), calls |-> <<r.value>>, template |-> template]

\* The entities of a run's async_add_entities calls, in order.
RECURSIVE Registered(_)
Registered(calls) ==
  IF calls = <<>> THEN <<>> ELSE Head(calls) \o Registered(Tail(calls))

\* The framework loads the entry and runs the platform's setup.
async_setup_entry ==
  /\ entry_state = "not_loaded"
  /\ LET b == SetupBody(SENSORS_MAPPING_TEMPLATE, coordinator) IN
       /\ SENSORS_MAPPING_TEMPLATE' = b.template
       /\ add_entities_calls' = b.calls
       /\ entities' = Registered(b.calls)
       /\ entry_state' = IF b.outcome.kind = "return" THEN "loaded" ELSE "not_loaded"
       /\ last' = [op |-> "setup", outcome |-> b.outcome]
  /\ UNCHANGED coordinator

\* Variant of Refresh: adapters whose key left the snapshot are removed.
Refresh_Prune(snapshot) ==
  /\ coordinator' = [data |-> snapshot]
  /\ last' = [op |-> "refresh"]
  /\ entities' = SelectSeq(entities,
                   LAMBDA e : e.entity_description.key \in Keys(snapshot.sensors))
  /\ UNCHANGED <<SENSORS_MAPPING_TEMPLATE, entry_state, add_entities_calls>>

\* The coordinator finishes a poll and replaces its data.
Refresh(snapshot) ==
  /\ coordinator' = [data |-> snapshot]
  /\ last' = [op |-> "refresh"]
  /\ UNCHANGED <<SENSORS_MAPPING_TEMPLATE, entry_state, add_entities_calls, entities>>

\* Variant of Read: the accessor pops the key (sensors.pop(key, None)).
Read_Pop(i) ==
  /\ entry_state = "loaded"
  /\ i \in 1..Len(entities)
  /\ last' = [op |-> "read", i |-> i, outcome |-> native_value(entities[i], coordinator)]
  /\ coordinator' =
       [data |-> [coordinator.data EXCEPT !.sensors =
          SelectSeq(@, LAMBDA it : it.k # entities[i].entity_description.key)]]
  /\ UNCHANGED <<SENSORS_MAPPING_TEMPLATE, entry_state, add_entities_calls, entities>>

\* The framework reads the state of entity i.
Read(i) ==
  /\ entry_state = "loaded"
  /\ i \in 1..Len(entities)
  /\ last' = [op |-> "read", i |-> i, outcome |-> native_value(entities[i], coordinator)]
  /\ UNCHANGED <<SENSORS_MAPPING_TEMPLATE, coordinator, entry_state,
                 add_entities_calls, entities>>

\* The framework tears the entry down and drops its entities.
Unload ==
  /\ entry_state = "loaded"
  /\ entry_state' = "not_loaded"
  /\ entities' = <<>>
  /\ add_entities_calls' = <<>>
  /\ last' = [op |-> "unload"]
  /\ UNCHANGED <<SENSORS_MAPPING_TEMPLATE, coordinator>>

Init ==
  /\ SENSORS_MAPPING_TEMPLATE = TemplateAtLoad
  /\ coordinator \in {[data |-> s] : s \in Snapshots}
  /\ entry_state = "not_loaded"
  /\ add_entities_calls = <<>>
  /\ entities = <<>>
  /\ last = [op |-> "import"]

Next ==
  \/ async_setup_entry
  \/ \E s \in Snapshots : Refresh(s)
  \/ \E i \in 1..MaxSensors : Read(i)
  \/ Unload

Spec == Init /\ [][Next]_vars

----------------------------------------------------------------------------
\* Vocabulary of the properties.

\* Keys of the current snapshot that the descriptor table knows.
KnownKeys == Keys(coordinator.data.sensors) \cap DOMAIN SENSORS_MAPPING_TEMPLATE

\* Keys of the adapters the platform holds.
AdapterKeys == { entities[i].entity_description.key : i \in 1..Len(entities) }

\* A step that runs async_setup_entry to completion / a step inside a loaded entry.
SetupStep == entry_state = "not_loaded" /\ entry_state' = "loaded"
LoadedStep == entry_state = "loaded" /\ entry_state' = "loaded"

\* The snapshot is not the one setup saw: it names another device.
SnapshotReplaced ==
  /\ entry_state = "loaded"
  /\ \E i \in 1..Len(entities) : entities[i]._id # coordinator.data.address

\* C1: the list handed to async_add_entities holds exactly one adapter for
\* each snapshot key the descriptor table knows, with that key's descriptor,
\* and no other adapter.  (Setup leaves the snapshot alone, so right after
\* setup coordinator.data is the snapshot that was passed.)
C1_OneAdapterPerKnownKey ==
  last.op = "setup" =>
    /\ Len(add_entities_calls) >= 1
    /\ \A c \in 1..Len(add_entities_calls) :
         LET list == add_entities_calls[c] IN
           /\ \A k \in KnownKeys :
                Cardinality({ i \in 1..Len(list) :
                    list[i].entity_description = SENSORS_MAPPING_TEMPLATE[k] }) = 1
           /\ \A i \in 1..Len(list) :
                \E k \in KnownKeys :
                  /\ list[i].entity_description = SENSORS_MAPPING_TEMPLATE[k]
                  /\ list[i].entity_description.key = k

C1_Witness ==
  /\ last.op = "setup"
  /\ Len(add_entities_calls) = 1
  /\ Len(add_entities_calls[1]) = 2
  /\ "ph" \in Keys(coordinator.data.sensors)

\* C2: a snapshot key the table does not know (exact match) gets no adapter,
\* setup raises nothing, and the known keys, also those after the unknown
\* one, are registered.
C2_UnknownKeySkipped ==
  last.op = "setup" =>
    /\ last.outcome = Return(None)
    /\ entry_state = "loaded"
    /\ \A j \in 1..Len(coordinator.data.sensors) :
         LET k == coordinator.data.sensors[j].k IN
           IF k \in DOMAIN SENSORS_MAPPING_TEMPLATE
             THEN k \in AdapterKeys
             ELSE k \notin AdapterKeys

C2_Witness ==
  /\ last.op = "setup"
  /\ last.outcome = Return(None)
  /\ Len(coordinator.data.sensors) >= 2
  /\ coordinator.data.sensors[1].k = "ph"
  /\ coordinator.data.sensors[2].k = "pH"
  /\ AdapterKeys = KnownKeys

C4_ReadsLatestValue ==
  last.op = "read" =>
    \A j \in 1..Len(coordinator.data.sensors) :
      coordinator.data.sensors[j].k = entities[last.i].entity_description.key
        => last.outcome = Return(coordinator.data.sensors[j].v)

C4_Witness ==
  /\ last.op = "read"
  /\ SnapshotReplaced
  /\ Len(entities) = 2
  /\ \E j1, j2 \in 1..Len(coordinator.data.sensors) :
       /\ coordinator.data.sensors[j1].k = entities[last.i].entity_description.key
       /\ coordinator.data.sensors[j2].k \in AdapterKeys
       /\ coordinator.data.sensors[j1].v # coordinator.data.sensors[j2].v
       /\ last.outcome = Return(coordinator.data.sensors[j1].v)

\* C5: a setup run that does not fail calls async_add_entities exactly once,
\* with the complete list of adapters, also when that list is empty.
C5_OneRegistrationCall ==
  (last.op = "setup" /\ last.outcome.kind = "return") =>
    /\ Len(add_entities_calls) = 1
    /\ Len(add_entities_calls[1]) = Cardinality(KnownKeys)
    /\ entities = add_entities_calls[1]

C5_Witness ==
  /\ last.op = "setup"
  /\ last.outcome.kind = "return"
  /\ add_entities_calls = << <<>> >>
  /\ coordinator.data.sensors # <<>>

\* C6: the descriptor table always has the eight keys and the descriptors
\* it was loaded with.
C6_TableNeverMutated ==
  /\ SENSORS_MAPPING_TEMPLATE = TemplateAtLoad
  /\ Cardinality(DOMAIN SENSORS_MAPPING_TEMPLATE) = 8

C6_Witness ==
  /\ last.op = "read"
  /\ Len(entities) = 2
  /\ "ph" \in Keys(coordinator.data.sensors)

\* C7 as stated: while the entry is loaded, the adapter keys are the known
\* keys of the coordinator's current snapshot.
C7_AdaptersTrackLatestSnapshot ==
  entry_state = "loaded" =>
    /\ AdapterKeys = KnownKeys
    /\ Len(entities) = Cardinality(AdapterKeys)

\* C7 amended: setup creates one adapter per known key of the snapshot it
\* iterates, and the adapter keys stay that set until the entry is unloaded.
C7_AdaptersTrackSetupSnapshot ==
  [][ /\ SetupStep => /\ AdapterKeys' = KnownKeys
                      /\ Len(entities') = Cardinality(KnownKeys)
      /\ LoadedStep => /\ AdapterKeys' = AdapterKeys
                       /\ Len(entities') = Len(entities) ]_vars

C7_Witness ==
  /\ entry_state = "loaded"
  /\ AdapterKeys # KnownKeys
  /\ Len(entities) = Cardinality(AdapterKeys)

\* C8: a read changes nothing but its own result, and a read that directly
\* follows a read of the same adapter returns the same result.
C8_ReadHasNoSideEffect ==
  [][ last'.op = "read" =>
        /\ UNCHANGED <<SENSORS_MAPPING_TEMPLATE, coordinator, entry_state,
                       add_entities_calls, entities>>
        /\ (last.op = "read" /\ last.i = last'.i) => last'.outcome = last.outcome ]_vars

C8_Witness ==
  /\ last.op = "read"
  /\ last.i = 2
  /\ last.outcome.kind = "return"
  /\ last.outcome.value \in Readings
  /\ entities[1].entity_description.key \notin Keys(coordinator.data.sensors)

\* C9: a coordinator refresh leaves the platform's adapters as they are.
C9_RefreshKeepsAdapters ==
  [][ last'.op = "refresh" => entities' = entities ]_vars

C9_Witness ==
  /\ entry_state = "loaded"
  /\ last.op = "refresh"
  /\ \E k \in KnownKeys : k \notin AdapterKeys
  /\ \E k \in AdapterKeys : k \notin KnownKeys

\* C10: the adapters of one setup run have pairwise distinct unique ids
\* "<device name> <device identifier>_<sensor key>", and an adapter keeps its
\* unique id while the entry is loaded.
C10_UniqueIds ==
  [][ /\ SetupStep =>
           /\ \A i \in 1..Len(entities') :
                entities'[i]._attr_unique_id =
                  coordinator.data.name \o " " \o coordinator.data.identifier
                    \o "_" \o entities'[i].entity_description.key
           /\ \A i, j \in 1..Len(entities') :
                i # j => entities'[i]._attr_unique_id # entities'[j]._attr_unique_id
      /\ LoadedStep =>
           /\ Len(entities') = Len(entities)
           /\ \A i \in 1..Len(entities) :
                entities'[i]._attr_unique_id = entities[i]._attr_unique_id ]_vars

C10_Witness ==
  /\ entry_state = "loaded"
  /\ Len(entities) = 2
  /\ entities[1]._attr_unique_id # entities[2]._attr_unique_id
  /\ entities[1]._attr_device_info.name #
       coordinator.data.name \o " " \o coordinator.data.identifier

====
